---------------------------- MODULE Spec2Model ----------------------------
(***************************************************************************)
(* Altitude estimator and altitude-hold controller of                      *)
(* src/main/flight/altitude.c, as a state machine.                         *)
(*                                                                         *)
(* Integers of the C code are modelled as mathematical integers; every     *)
(* value the model produces stays far inside int32, so no int32 operation  *)
(* of the code overflows on the inputs enumerated here.  The microsecond   *)
(* timer is an unsigned 32-bit value and is modelled as two 16-bit halves, *)
(* so that the wrap-around of its subtraction is the code's.               *)
(*                                                                         *)
(* float quantities (vel, accAlt, accZ_tmp, accZ_old) are modelled in      *)
(* fixed point: the integer x stands for the float x / FS.  Products and   *)
(* quotients are truncated to that resolution, which differs from IEEE     *)
(* rounding below 1 / FS only.                                             *)
(***************************************************************************)
EXTENDS Integers, FiniteSets, Sequences, TLC

(***************************************************************************)
(* Bounds of the model.                                                    *)
(***************************************************************************)
\* resolution of the fixed-point image of a float: 1 / FS
FS == 2
\* accepted estimator ticks explored in one behaviour
MaxTicks == 2
\* cycles a barometer calibration takes in the model
BaroCalibrationCycles == 2
\* direct calls of the controller explored in one behaviour
MaxCalls == 1

(***************************************************************************)
(* Program constants.                                                      *)
(***************************************************************************)
BARO_UPDATE_FREQUENCY_40HZ == 1000 * 25
DEGREES_80_IN_DECIDEGREES == 800
PWM_RANGE_MIN == 1000
PWM_RANGE_MAX == 2000
\* the anti-windup range of the velocity integral, (8192 * 200)
ERROR_VELOCITY_I_MAX == 8192 * 200

(***************************************************************************)
(* common/maths.h                                                          *)
(***************************************************************************)
ABS(x) == IF x > 0 THEN x ELSE -x

constrain(amt, low, high) ==
    IF amt < low THEN low ELSE IF amt > high THEN high ELSE amt

applyDeadband(value, deadband) ==
    IF ABS(value) < deadband THEN 0
    ELSE IF value > 0 THEN value - deadband
    ELSE IF value < 0 THEN value + deadband
    ELSE value

GET_DIRECTION(isReversed) == IF isReversed THEN -1 ELSE 1

\* C integer division and float -> int conversion truncate toward zero
TruncDiv(a, b) ==
    IF b > 0
    THEN (IF a >= 0 THEN a \div b ELSE -((-a) \div b))
    ELSE (IF a >= 0 THEN -(a \div (-b)) ELSE (-a) \div (-b))

\* a * b / c, truncated, for b >= 0 and c > 0: the product is taken in two parts,
\* b = q * c + r, so that no intermediate value leaves the model checker's integers
MulDiv(a, b, c) ==
    LET q == b \div c
        r == b % c
    IN  IF a >= 0 THEN a * q + ((a * r) \div c)
        ELSE -((-a) * q + (((-a) * r) \div c))

\* (int32_t) of a float in fixed point
FloatToInt(x) == TruncDiv(x, FS)

\* (float) of an int
IntToFloat(i) == i * FS

\* lrintf: to the nearest integer, ties to even (the default rounding mode)
lrintf(x) ==
    LET q == x \div FS
        r == x - q * FS
    IN  IF 2 * r < FS THEN q
        ELSE IF 2 * r > FS THEN q + 1
        ELSE IF q % 2 = 0 THEN q ELSE q + 1

(***************************************************************************)
(* timeUs_t: an unsigned 32-bit count of microseconds, as [hi, lo] with    *)
(* value hi * 65536 + lo.                                                  *)
(***************************************************************************)
U16 == 65536

TimeUs(hi, lo) == [hi |-> hi, lo |-> lo]

\* (a - b) mod 2^32
U32Sub(a, b) ==
    LET lo == a.lo - b.lo
        borrow == IF lo < 0 THEN 1 ELSE 0
    IN  [hi |-> (a.hi - b.hi - borrow) % U16, lo |-> lo % U16]

\* a < n for a 32-bit a and a small n (n < 65536)
U32Less(a, n) == a.hi = 0 /\ a.lo < n

(***************************************************************************)
(* State.                                                                  *)
(***************************************************************************)
VARIABLES
    \* configuration the core reads and never writes
    config,                     \* STATE(FIXED_WING), rcControlsConfig(), airplaneConfig(), barometerConfig()
    pidProfile,                 \* P8[PIDALT], P8[PIDVEL], I8[PIDVEL], D8[PIDVEL]
    \* file-scope state of altitude.c
    setVelocity,
    velocityControl,
    errorVelocityI,
    altHoldThrottleAdjustment,
    AltHold,
    estimatedVario,
    estimatedAltitude,
    initialThrottleHold,
    \* function-scope statics
    isAltHoldChanged,           \* applyMultirotorAltHold
    previousTimeUs,             \* calculateEstimatedAltitude
    vel,                        \* float, fixed point
    accAlt,                     \* float, fixed point
    lastBaroAlt,
    accZ_old,                   \* float, fixed point
    \* state of the collaborators the core reads and writes
    flightModeFlags,            \* subset of {"BARO_MODE", "SONAR_MODE"}
    rcCommand,                  \* [THROTTLE, PITCH]
    attitude,                   \* [roll, pitch], decidegrees
    calibratingB,               \* barometer calibration cycles left
    \* bookkeeping of the model
    nTicks,                     \* accepted estimator ticks so far
    op                          \* the last operation, its inputs and what it computed

holdVars == <<setVelocity, velocityControl, AltHold, initialThrottleHold,
              isAltHoldChanged, flightModeFlags, rcCommand>>

estimatorVars == <<estimatedVario, estimatedAltitude, previousTimeUs, vel, accAlt,
                   lastBaroAlt, accZ_old, attitude, calibratingB, nTicks>>

vars == <<config, pidProfile, setVelocity, velocityControl, errorVelocityI,
          altHoldThrottleAdjustment, AltHold, estimatedVario, estimatedAltitude,
          initialThrottleHold, isAltHoldChanged, previousTimeUs, vel, accAlt,
          lastBaroAlt, accZ_old, flightModeFlags, rcCommand, attitude,
          calibratingB, nTicks, op>>

\* the tilt limit taken as inclusive
isThrustFacingDownwards_inclusive(att) ==
    ABS(att.roll) <= DEGREES_80_IN_DECIDEGREES /\ ABS(att.pitch) <= DEGREES_80_IN_DECIDEGREES

(***************************************************************************)
(* isThrustFacingDownwards                                                 *)
(***************************************************************************)
isThrustFacingDownwards(att) ==
    ABS(att.roll) < DEGREES_80_IN_DECIDEGREES /\ ABS(att.pitch) < DEGREES_80_IN_DECIDEGREES

(***************************************************************************)
(* calculateAltHoldThrottleAdjustment, one stage at a time.  The function  *)
(* reads the globals attitude, estimatedAltitude and errorVelocityI as the *)
(* caller left them, so they are parameters here: att, estAlt, errI.       *)
(***************************************************************************)
\* the altitude P stage without the deadband of line 189
altitudePStage_noDeadband(estAlt) ==
    IF velocityControl = 0
    THEN constrain(TruncDiv(pidProfile.P8ALT * constrain(AltHold - estAlt, -500, 500), 128),
                   -300, 300)
    ELSE setVelocity

\* Altitude P-Controller: the target velocity setVel
altitudePStage(estAlt) ==
    IF velocityControl = 0
    THEN LET error0 == constrain(AltHold - estAlt, -500, 500)
             error == applyDeadband(error0, 10)
         IN  constrain(TruncDiv(pidProfile.P8ALT * error, 128), -300, 300)
    ELSE setVelocity

\* the P stage without its clamp
velocityPStage_unclamped(error) ==
    TruncDiv(pidProfile.P8VEL * error, 32)

\* Velocity P
velocityPStage(error) ==
    constrain(TruncDiv(pidProfile.P8VEL * error, 32), -300, 300)

\* the integral without its anti-windup clamp
velocityIStage_unclamped(errI, error) ==
    errI + pidProfile.I8VEL * error

\* Velocity I: the integral after this call
velocityIStage(errI, error) ==
    constrain(errI + pidProfile.I8VEL * error, -ERROR_VELOCITY_I_MAX, ERROR_VELOCITY_I_MAX)

\* Velocity D: the amount subtracted; accZ_tmp and accZ_old_ are floats
velocityDStage(accZ_tmp, accZ_old_) ==
    constrain(TruncDiv(pidProfile.D8VEL * (accZ_tmp + accZ_old_), 512 * FS), -150, 150)

\* the controller without the early return of lines 181-183
calculateAltHoldThrottleAdjustment_noTiltCheck(att, estAlt, errI, vel_tmp, accZ_tmp, accZ_old_) ==
    LET setVel == altitudePStage(estAlt)
        error == setVel - vel_tmp
        p == velocityPStage(error)
        newI == velocityIStage(errI, error)
        i == TruncDiv(newI, 8192)
        d == velocityDStage(accZ_tmp, accZ_old_)
    IN  [result |-> p + i - d, errorVelocityI |-> newI,
         thrust |-> isThrustFacingDownwards(att),
         setVel |-> setVel, p |-> p, i |-> i, d |-> d]

calculateAltHoldThrottleAdjustment(att, estAlt, errI, vel_tmp, accZ_tmp, accZ_old_) ==
    IF ~isThrustFacingDownwards(att)
    THEN [result |-> 0, errorVelocityI |-> errI, thrust |-> FALSE,
          setVel |-> 0, p |-> 0, i |-> 0, d |-> 0]
    ELSE LET setVel == altitudePStage(estAlt)
             error == setVel - vel_tmp
             p == velocityPStage(error)
             newI == velocityIStage(errI, error)
             i == TruncDiv(newI, 8192)
             d == velocityDStage(accZ_tmp, accZ_old_)
         IN  [result |-> p + i - d, errorVelocityI |-> newI, thrust |-> TRUE,
              setVel |-> setVel, p |-> p, i |-> i, d |-> d]

(***************************************************************************)
(* applyAltHold.  The rc processing of the same loop has just written the  *)
(* command channels (cmdThrottle, cmdPitch) from the pilot's sticks;       *)
(* throttle is rcData[THROTTLE].                                           *)
(***************************************************************************)
\* the rotary-wing hold writing engage-time throttle + adjustment without constrain
applyMultirotorAltHold_unclamped(throttle, cmdThrottle, cmdPitch) ==
    LET deadband == config.alt_hold_deadband
        beyond == ABS(throttle - initialThrottleHold) > deadband
        held == initialThrottleHold + altHoldThrottleAdjustment
    IN  /\ rcCommand' = [THROTTLE |-> IF config.alt_hold_fast_change /\ beyond
                                      THEN cmdThrottle + (IF throttle > initialThrottleHold
                                                          THEN -deadband ELSE deadband)
                                      ELSE held,
                         PITCH |-> cmdPitch]
        /\ errorVelocityI' = IF config.alt_hold_fast_change /\ beyond THEN 0
                             ELSE errorVelocityI
        /\ isAltHoldChanged' = IF beyond THEN 1 ELSE 0
        /\ AltHold' = IF ~beyond /\ isAltHoldChanged # 0 THEN estimatedAltitude ELSE AltHold
        /\ setVelocity' = IF ~config.alt_hold_fast_change /\ beyond
                          THEN TruncDiv(throttle - initialThrottleHold, 2) ELSE setVelocity
        /\ velocityControl' = IF config.alt_hold_fast_change THEN velocityControl
                              ELSE IF beyond THEN 1
                              ELSE IF isAltHoldChanged # 0 THEN 0 ELSE velocityControl

\* the rotary-wing hold with one of two slips: "alwaysRelatch" re-latches the target
\* on every call within the deadband, without the test of isAltHoldChanged;
\* "fullDeviation" sets the target velocity to the stick deviation, not to its half
applyMultirotorAltHoldWith(slip, throttle, cmdThrottle, cmdPitch) ==
    LET deadband == config.alt_hold_deadband
        fast == config.alt_hold_fast_change
        beyond == ABS(throttle - initialThrottleHold) > deadband
        changed == isAltHoldChanged # 0 \/ slip = "alwaysRelatch"
        held == constrain(initialThrottleHold + altHoldThrottleAdjustment,
                          PWM_RANGE_MIN, PWM_RANGE_MAX)
    IN  /\ rcCommand' = [THROTTLE |-> IF fast /\ beyond
                                      THEN cmdThrottle + (IF throttle > initialThrottleHold
                                                          THEN -deadband ELSE deadband)
                                      ELSE held,
                         PITCH |-> cmdPitch]
        /\ errorVelocityI' = IF fast /\ beyond THEN 0 ELSE errorVelocityI
        /\ isAltHoldChanged' = IF beyond THEN 1 ELSE 0
        /\ AltHold' = IF ~beyond /\ changed THEN estimatedAltitude ELSE AltHold
        /\ setVelocity' = IF ~fast /\ beyond
                          THEN (IF slip = "fullDeviation" THEN throttle - initialThrottleHold
                                ELSE TruncDiv(throttle - initialThrottleHold, 2))
                          ELSE setVelocity
        /\ velocityControl' = IF fast THEN velocityControl
                              ELSE IF beyond THEN 1
                              ELSE IF changed THEN 0 ELSE velocityControl

applyMultirotorAltHold_alwaysRelatch(throttle, cmdThrottle, cmdPitch) ==
    applyMultirotorAltHoldWith("alwaysRelatch", throttle, cmdThrottle, cmdPitch)

applyMultirotorAltHold_fullDeviation(throttle, cmdThrottle, cmdPitch) ==
    applyMultirotorAltHoldWith("fullDeviation", throttle, cmdThrottle, cmdPitch)

applyMultirotorAltHold(throttle, cmdThrottle, cmdPitch) ==
    LET deadband == config.alt_hold_deadband
        beyond == ABS(throttle - initialThrottleHold) > deadband
        held == constrain(initialThrottleHold + altHoldThrottleAdjustment,
                          PWM_RANGE_MIN, PWM_RANGE_MAX)
    IN  IF config.alt_hold_fast_change
        THEN IF beyond
             THEN /\ errorVelocityI' = 0
                  /\ isAltHoldChanged' = 1
                  /\ rcCommand' = [THROTTLE |-> cmdThrottle +
                                       (IF throttle > initialThrottleHold
                                        THEN -deadband ELSE deadband),
                                   PITCH |-> cmdPitch]
                  /\ UNCHANGED <<AltHold, setVelocity, velocityControl>>
             ELSE /\ AltHold' = IF isAltHoldChanged # 0 THEN estimatedAltitude ELSE AltHold
                  /\ isAltHoldChanged' = 0
                  /\ rcCommand' = [THROTTLE |-> held, PITCH |-> cmdPitch]
                  /\ UNCHANGED <<errorVelocityI, setVelocity, velocityControl>>
        ELSE /\ IF beyond
                THEN /\ setVelocity' = TruncDiv(throttle - initialThrottleHold, 2)
                     /\ velocityControl' = 1
                     /\ isAltHoldChanged' = 1
                     /\ UNCHANGED AltHold
                ELSE IF isAltHoldChanged # 0
                THEN /\ AltHold' = estimatedAltitude
                     /\ velocityControl' = 0
                     /\ isAltHoldChanged' = 0
                     /\ UNCHANGED setVelocity
                ELSE UNCHANGED <<AltHold, setVelocity, velocityControl, isAltHoldChanged>>
             /\ rcCommand' = [THROTTLE |-> held, PITCH |-> cmdPitch]
             /\ UNCHANGED errorVelocityI

\* the fixed-wing hold without the reversal of the direction
applyFixedWingAltHold_ignoresReversal(throttle, cmdThrottle, cmdPitch) ==
    /\ rcCommand' = [THROTTLE |-> cmdThrottle,
                     PITCH |-> cmdPitch + altHoldThrottleAdjustment]
    /\ UNCHANGED <<errorVelocityI, isAltHoldChanged, AltHold, setVelocity, velocityControl>>

\* the fixed-wing hold moving the target to the estimate
applyFixedWingAltHold_relatch(throttle, cmdThrottle, cmdPitch) ==
    /\ rcCommand' = [THROTTLE |-> cmdThrottle,
                     PITCH |-> cmdPitch + altHoldThrottleAdjustment *
                                   GET_DIRECTION(config.fixedwing_althold_reversed)]
    /\ AltHold' = estimatedAltitude
    /\ UNCHANGED <<errorVelocityI, isAltHoldChanged, setVelocity, velocityControl>>

applyFixedWingAltHold(throttle, cmdThrottle, cmdPitch) ==
    /\ rcCommand' = [THROTTLE |-> cmdThrottle,
                     PITCH |-> cmdPitch + altHoldThrottleAdjustment *
                                   GET_DIRECTION(config.fixedwing_althold_reversed)]
    /\ UNCHANGED <<errorVelocityI, isAltHoldChanged, AltHold, setVelocity, velocityControl>>

applyAltHold(throttle, cmdThrottle, cmdPitch) ==
    /\ IF config.FIXED_WING
       THEN applyFixedWingAltHold(throttle, cmdThrottle, cmdPitch)
       ELSE applyMultirotorAltHold(throttle, cmdThrottle, cmdPitch)
    /\ op' = [name |-> "applyAltHold", throttle |-> throttle,
              cmdThrottle |-> cmdThrottle, cmdPitch |-> cmdPitch,
              relatched |-> AltHold' # AltHold]
    /\ UNCHANGED <<config, pidProfile, altHoldThrottleAdjustment, initialThrottleHold,
                   flightModeFlags>>
    /\ UNCHANGED estimatorVars

\* the record a hold-state call leaves in op
holdCall(fn, mode, active, throttle) ==
    [name |-> fn, active |-> active, throttle |-> throttle,
     engaged |-> mode \in flightModeFlags,
     relatched |-> AltHold' # AltHold,
     justEngaged |-> op.name = fn /\ op.active /\ ~op.engaged]

\* what a hold-state call never writes
holdStateFrame ==
    /\ UNCHANGED <<config, pidProfile, setVelocity, velocityControl, isAltHoldChanged,
                   rcCommand>>
    /\ UNCHANGED estimatorVars

\* the engage action run on every active call, without the test of the mode flag
updateHoldState_relatch(fn, mode, active, throttle) ==
    /\ IF ~active
       THEN /\ flightModeFlags' = flightModeFlags \ {mode}
            /\ UNCHANGED <<AltHold, initialThrottleHold, errorVelocityI,
                           altHoldThrottleAdjustment>>
       ELSE /\ flightModeFlags' = flightModeFlags \cup {mode}
            /\ AltHold' = estimatedAltitude
            /\ initialThrottleHold' = throttle
            /\ errorVelocityI' = 0
            /\ altHoldThrottleAdjustment' = 0
    /\ op' = holdCall(fn, mode, active, throttle)
    /\ holdStateFrame

\* disengaging also resets the controller
updateHoldState_resetOnExit(fn, mode, active, throttle) ==
    /\ IF ~active
       THEN /\ flightModeFlags' = flightModeFlags \ {mode}
            /\ errorVelocityI' = 0
            /\ altHoldThrottleAdjustment' = 0
            /\ UNCHANGED <<AltHold, initialThrottleHold>>
       ELSE IF mode \notin flightModeFlags
       THEN /\ flightModeFlags' = flightModeFlags \cup {mode}
            /\ AltHold' = estimatedAltitude
            /\ initialThrottleHold' = throttle
            /\ errorVelocityI' = 0
            /\ altHoldThrottleAdjustment' = 0
       ELSE UNCHANGED <<flightModeFlags, AltHold, initialThrottleHold, errorVelocityI,
                        altHoldThrottleAdjustment>>
    /\ op' = holdCall(fn, mode, active, throttle)
    /\ holdStateFrame

\* engaging latches the target and the throttle but leaves the controller as it is
updateHoldState_noReset(fn, mode, active, throttle) ==
    /\ IF ~active
       THEN /\ flightModeFlags' = flightModeFlags \ {mode}
            /\ UNCHANGED <<AltHold, initialThrottleHold, errorVelocityI,
                           altHoldThrottleAdjustment>>
       ELSE IF mode \notin flightModeFlags
       THEN /\ flightModeFlags' = flightModeFlags \cup {mode}
            /\ AltHold' = estimatedAltitude
            /\ initialThrottleHold' = throttle
            /\ UNCHANGED <<errorVelocityI, altHoldThrottleAdjustment>>
       ELSE UNCHANGED <<flightModeFlags, AltHold, initialThrottleHold, errorVelocityI,
                        altHoldThrottleAdjustment>>
    /\ op' = holdCall(fn, mode, active, throttle)
    /\ holdStateFrame

(***************************************************************************)
(* updateAltHoldState and updateSonarAltHoldState.  active is              *)
(* IS_RC_MODE_ACTIVE(BOXBARO) or (BOXSONAR); throttle is rcData[THROTTLE]. *)
(* op records the call: whether the mode was engaged before it, whether    *)
(* the call changed the target, and whether the operation before it was    *)
(* this function's engagement.                                             *)
(***************************************************************************)
updateHoldState(fn, mode, active, throttle) ==
    /\ IF ~active
       THEN /\ flightModeFlags' = flightModeFlags \ {mode}
            /\ UNCHANGED <<AltHold, initialThrottleHold, errorVelocityI,
                           altHoldThrottleAdjustment>>
       ELSE IF mode \notin flightModeFlags
       THEN /\ flightModeFlags' = flightModeFlags \cup {mode}
            /\ AltHold' = estimatedAltitude
            /\ initialThrottleHold' = throttle
            /\ errorVelocityI' = 0
            /\ altHoldThrottleAdjustment' = 0
       ELSE UNCHANGED <<flightModeFlags, AltHold, initialThrottleHold, errorVelocityI,
                        altHoldThrottleAdjustment>>
    /\ op' = holdCall(fn, mode, active, throttle)
    /\ holdStateFrame

updateAltHoldState(active, throttle) ==
    updateHoldState("updateAltHoldState", "BARO_MODE", active, throttle)

updateSonarAltHoldState(active, throttle) ==
    updateHoldState("updateSonarAltHoldState", "SONAR_MODE", active, throttle)

(***************************************************************************)
(* Collaborators of the estimator.                                         *)
(***************************************************************************)
\* sensors/barometer.c: calibration is complete when no cycle is left
isBaroCalibrationComplete(cyclesLeft) == cyclesLeft = 0

\* sensors/barometer.c: one calibration cycle
performBaroCalibrationCycle(cyclesLeft) == cyclesLeft - 1

\* sensors/sonar.c: the band in which the ranging altitude is blended in
sonarCfAltCm == 200
sonarMaxAltWithTiltCm == 369

\* flight/imu.c: accVelScale = 9.80665f / acc_1G / 10000.0f is 1 / AccVelScaleInv
\* for an accelerometer of 512 counts per G
AccVelScaleInv == 522094

\* barometerConfig()->baro_cf_vel and baro_cf_alt are CfDen-ths
CfDen == 1000

(***************************************************************************)
(* calculateEstimatedAltitude, one block at a time.                        *)
(***************************************************************************)
\* the elapsed time as a difference that does not wrap: nothing has elapsed when the
\* timer reads less than the stored timestamp
elapsedUs_noWrap(currentTimeUs) ==
    IF \/ currentTimeUs.hi < previousTimeUs.hi
       \/ currentTimeUs.hi = previousTimeUs.hi /\ currentTimeUs.lo < previousTimeUs.lo
    THEN TimeUs(0, 0)
    ELSE U32Sub(currentTimeUs, previousTimeUs)

\* line 214: dTime
elapsedUs(currentTimeUs) == U32Sub(currentTimeUs, previousTimeUs)

\* line 215: the update is due
updateDue(dTime) == ~U32Less(dTime, BARO_UPDATE_FREQUENCY_40HZ)

\* the ranging band without its two bounds
sonarInRange_exclusive(sonarAlt) ==
    sonarAlt > 0 /\ sonarAlt > sonarCfAltCm /\ sonarAlt < sonarMaxAltWithTiltCm

\* lines 240-244: the complementary filter of ranging and barometric altitude;
\* sonarAlt * t + baroAlt * (1 - t) with t = (max - sonarAlt) / (max - cf), as a
\* rational, converted to int32
sonarInRange(sonarAlt) ==
    sonarAlt > 0 /\ sonarAlt >= sonarCfAltCm /\ sonarAlt <= sonarMaxAltWithTiltCm

sonarBlend(sonarAlt, baroAlt) ==
    TruncDiv(sonarAlt * (sonarMaxAltWithTiltCm - sonarAlt)
                 + baroAlt * (sonarAlt - sonarCfAltCm),
             sonarMaxAltWithTiltCm - sonarCfAltCm)

\* lines 255-257: the mean vertical acceleration of the window, a float
meanAccZ(accSum, accSumCount) ==
    IF accSumCount # 0 THEN TruncDiv(IntToFloat(accSum), accSumCount) ELSE 0

\* line 258: vel_acc, a float
velAcc(accZ_tmp, accTimeSum) == MulDiv(accZ_tmp, accTimeSum, AccVelScaleInv)

\* line 261: the altitude integrator, a float; dt = accTimeSum * 1e-6
integrateAccAlt(accAlt0, vel0, vel_acc, accTimeSum) ==
    accAlt0 + MulDiv(TruncDiv(vel_acc, 2) + vel0, accTimeSum, 1000000)

\* the complementary filter with its two weights exchanged
complementaryFilter_swapped(a, b, cf) == TruncDiv(a * (CfDen - cf) + b * cf, CfDen)

\* lines 262 and 292: a * cf + b * (1 - cf), floats
complementaryFilter(a, b, cf) == TruncDiv(a * cf + b * (CfDen - cf), CfDen)

\* line 282: (baroAlt - lastBaroAlt) * 1000000.0f / dTime, converted to int32.
\* A dTime of 2^31 or more makes the quotient less than 1 in magnitude.
baroVelocity(baroAlt, lastAlt, dTime) ==
    IF dTime.hi >= 32768 THEN 0
    ELSE TruncDiv((baroAlt - lastAlt) * 1000000, dTime.hi * U16 + dTime.lo)

\* lines 285-286
filterBaroVelocity(baroVel) == applyDeadband(constrain(baroVel, -1500, 1500), 10)

\* the tick never ends before the velocity stage
exitsBeforeVelocity_never(baro, cyclesLeft) == FALSE

\* lines 276-279: the tick ends before the velocity stage while the barometer,
\* present, is still calibrating after this tick's cycle
exitsBeforeVelocity(baro, cyclesLeft) == baro /\ ~isBaroCalibrationComplete(cyclesLeft)

\* the divisions of an accepted tick that are executed with a divisor of zero:
\* line 242 divides by the width of the ranging band when the reading is in the band,
\* line 256 divides by accSumCount under the guard of line 255, and the tap of line
\* 268 divides by accSumCount whenever it is live
zeroDivisors(in) ==
    (IF /\ "SONAR" \in in.sensors /\ sonarInRange(in.sonarAlt)
        /\ sonarMaxAltWithTiltCm - sonarCfAltCm = 0
     THEN {"line 242"} ELSE {})
    \cup (IF "ACC" \in in.sensors /\ in.accSumCount # 0 /\ in.accSumCount = 0
          THEN {"line 256"} ELSE {})
    \cup (IF config.debug_altitude /\ in.accSumCount = 0
          THEN {"line 268"} ELSE {})

(***************************************************************************)
(* in: the call's argument and what the collaborators return during it:    *)
(*   time          currentTimeUs                                           *)
(*   sensors       the sensors for which sensors() is true                 *)
(*   baroAlt       baroCalculateAltitude()                                 *)
(*   sonarAlt      sonarCalculateAltitude(sonarRead(), getCosTiltAngle())  *)
(*   accSum, accSumCount, accTimeSum   the accelerometer window of imu.c   *)
(*   attitude      the attitude of imu.c                                   *)
(* imuResetAccelerationSum() empties the window of imu.c, which the next   *)
(* call's in stands for.                                                   *)
(***************************************************************************)
estimatorTick(in) ==
    LET dTime == elapsedUs(in.time)
        baro == "BARO" \in in.sensors
        calibrating == baro /\ ~isBaroCalibrationComplete(calibratingB)
        cyclesLeft == IF calibrating THEN performBaroCalibrationCycle(calibratingB)
                      ELSE calibratingB
        vel1 == IF calibrating THEN 0 ELSE vel
        accAlt1 == IF calibrating THEN 0 ELSE accAlt
        baroAlt == IF baro /\ ~calibrating THEN in.baroAlt ELSE 0
        est1 == IF baro /\ ~calibrating THEN baroAlt ELSE estimatedAltitude
        \* SONAR
        blended == "SONAR" \in in.sensors /\ sonarInRange(in.sonarAlt)
        est2 == IF blended THEN sonarBlend(in.sonarAlt, baroAlt) ELSE est1
        \* ACC
        acc == "ACC" \in in.sensors
        accZ_tmp == IF acc THEN meanAccZ(in.accSum, in.accSumCount) ELSE 0
        vel_acc == velAcc(accZ_tmp, in.accTimeSum)
        accAlt2 == IF acc
                   THEN complementaryFilter(
                            integrateAccAlt(accAlt1, vel1, vel_acc, in.accTimeSum),
                            IntToFloat(baroAlt), config.baro_cf_alt)
                   ELSE accAlt1
        vel2 == IF acc THEN vel1 + vel_acc ELSE vel1
        est3 == IF acc THEN FloatToInt(accAlt2) ELSE est2
        \* line 277: the barometer is still calibrating
        exits == exitsBeforeVelocity(baro, cyclesLeft)
        baroVel == IF baro
                   THEN filterBaroVelocity(baroVelocity(baroAlt, lastBaroAlt, dTime))
                   ELSE 0
        vel3 == complementaryFilter(vel2, IntToFloat(baroVel), config.baro_cf_vel)
        vel_tmp == lrintf(vel3)
        calc == calculateAltHoldThrottleAdjustment(in.attitude, est3, errorVelocityI,
                                                   vel_tmp, accZ_tmp, accZ_old)
    IN  IF ~updateDue(dTime)
        THEN /\ op' = [name |-> "calculateEstimatedAltitude", accepted |-> FALSE,
                       time |-> in.time]
             /\ UNCHANGED <<previousTimeUs, calibratingB, estimatedAltitude, vel, accAlt,
                            lastBaroAlt, estimatedVario, altHoldThrottleAdjustment,
                            errorVelocityI, accZ_old, attitude, nTicks>>
        ELSE /\ nTicks < MaxTicks
             /\ nTicks' = nTicks + 1
             /\ previousTimeUs' = in.time
             /\ calibratingB' = cyclesLeft
             /\ estimatedAltitude' = est3
             /\ accAlt' = accAlt2
             /\ attitude' = in.attitude
             /\ IF exits
                THEN /\ vel' = vel2
                     /\ UNCHANGED <<lastBaroAlt, estimatedVario, altHoldThrottleAdjustment,
                                    errorVelocityI, accZ_old>>
                ELSE /\ vel' = vel3
                     /\ lastBaroAlt' = IF baro THEN baroAlt ELSE lastBaroAlt
                     /\ estimatedVario' = applyDeadband(vel_tmp, 5)
                     /\ altHoldThrottleAdjustment' = calc.result
                     /\ errorVelocityI' = calc.errorVelocityI
                     /\ accZ_old' = accZ_tmp
             /\ op' = [name |-> "calculateEstimatedAltitude", accepted |-> TRUE,
                       time |-> in.time, in |-> in, calibrating |-> calibrating,
                       exits |-> exits, zeroDivisors |-> zeroDivisors(in)]

calculateEstimatedAltitude(in) ==
    /\ estimatorTick(in)
    /\ UNCHANGED <<config, pidProfile>>
    /\ UNCHANGED holdVars

\* sensors/barometer.c, baroSetCalibrationCycles: a calibration is started again
baroSetCalibrationCycles(n) ==
    /\ calibratingB = 0
    /\ calibratingB' = n
    /\ op' = [name |-> "baroSetCalibrationCycles"]
    /\ UNCHANGED <<config, pidProfile, errorVelocityI, altHoldThrottleAdjustment,
                   estimatedVario, estimatedAltitude, previousTimeUs, vel, accAlt,
                   lastBaroAlt, accZ_old, attitude, nTicks>>
    /\ UNCHANGED holdVars

(***************************************************************************)
(* Configurations and inputs.                                              *)
(***************************************************************************)
\* alt_hold_deadband 40, baro_cf_vel 0.985 and baro_cf_alt 0.965 are the defaults
Vehicle(fixedWing, fast, reversed) ==
    [FIXED_WING |-> fixedWing, alt_hold_fast_change |-> fast,
     fixedwing_althold_reversed |-> reversed,
     alt_hold_deadband |-> 40, baro_cf_vel |-> 985, baro_cf_alt |-> 965,
     debug_altitude |-> FALSE]

RotaryFast == Vehicle(FALSE, TRUE, FALSE)
\* debugMode == DEBUG_ALTITUDE: the DEBUG_SET taps of the estimator are live
RotaryFastDebug == [RotaryFast EXCEPT !.debug_altitude = TRUE]
RotarySlow == Vehicle(FALSE, FALSE, FALSE)

\* rotary wing in fast and in slow mode, fixed wing with and without reversal
Vehicles == {RotaryFast, RotarySlow, Vehicle(TRUE, TRUE, FALSE), Vehicle(TRUE, TRUE, TRUE)}

Gains(pAlt, pVel, iVel, dVel) ==
    [P8ALT |-> pAlt, P8VEL |-> pVel, I8VEL |-> iVel, D8VEL |-> dVel]

\* the gains are uint8_t: the default altitude gain, and the largest velocity gains,
\* with which the stages reach their clamps
PidProfiles == {Gains(50, 120, 255, 255)}

\* rcData[THROTTLE]: two low stick positions further apart than the deadband
Throttles == {1050, 1100}

\* the command channels as the rc processing of the loop leaves them: the throttle
\* command of a low stick is the bottom of the range
ThrottleCommands == {PWM_RANGE_MIN}
PitchCommands == {0, 500}

\* what an applyAltHold call reads: the fixed-wing path reads the pitch command
\* alone, the rotary-wing path the stick and the throttle command
ApplyInputs(throttles, commands) ==
    IF config.FIXED_WING
    THEN {[throttle |-> 1500, cmdThrottle |-> 1500, cmdPitch |-> c] : c \in PitchCommands}
    ELSE {[throttle |-> t, cmdThrottle |-> c, cmdPitch |-> 0] :
              t \in throttles, c \in commands}

Time0 == TimeUs(0, 0)
Time25000 == TimeUs(0, 25000)
Time49999 == TimeUs(0, 49999)
Time50000 == TimeUs(0, 50000)
\* 2^32 - 20000
TimeBeforeWrap == TimeUs(65535, 45536)
Times == {Time0, Time25000, Time49999, TimeBeforeWrap}

Level == [roll |-> 0, pitch |-> 0]
Rolled == [roll |-> 800, pitch |-> 0]

Window(sum, count, time) == [accSum |-> sum, accSumCount |-> count, accTimeSum |-> time]

NoWindow == Window(0, 0, 0)
\* 4000 samples in 4 s with a mean of 2 G (512 counts per G), upwards
Climb == Window(4096000, 4000, 4000000)
\* 25 samples in 25 ms with a mean of 1 G, downwards
Sink == Window(-12800, 25, 25000)

TickInput(time, sensors, baroAlt, sonarAlt, window, att) ==
    [time |-> time, sensors |-> sensors, baroAlt |-> baroAlt, sonarAlt |-> sonarAlt,
     accSum |-> window.accSum, accSumCount |-> window.accSumCount,
     accTimeSum |-> window.accTimeSum, attitude |-> att]

\* the sensor readings of a tick; an absent sensor has no reading
Readings ==
    {TickInput(Time0, {}, 0, 0, NoWindow, Level),
     TickInput(Time0, {"BARO"}, 1000, 0, NoWindow, Level),
     TickInput(Time0, {"BARO"}, 0, 0, NoWindow, Rolled),
     TickInput(Time0, {"ACC"}, 0, 0, Climb, Level),
     TickInput(Time0, {"ACC"}, 0, 0, NoWindow, Level),
     TickInput(Time0, {"BARO", "SONAR"}, 1000, 300, NoWindow, Level),
     TickInput(Time0, {"BARO", "ACC"}, 1000, 0, Sink, Level),
     TickInput(Time0, {"BARO", "SONAR", "ACC"}, 0, 300, Sink, Level)}

TickInputs == {[r EXCEPT !.time = t] : r \in Readings, t \in {Time25000, Time50000}}

\* the ticks of the behaviours that exercise the hold: the barometer alone
HoldTickInputs ==
    {TickInput(t, {"BARO"}, b, 0, NoWindow, Level) : t \in {Time25000, Time50000},
                                                      b \in {0, 1000}}

(***************************************************************************)
(* The system: the state after start-up, and the calls of the scheduler.   *)
(***************************************************************************)
Start(vehicles) ==
    /\ config \in vehicles
    /\ pidProfile \in PidProfiles
    /\ setVelocity = 0
    /\ velocityControl = 0
    /\ errorVelocityI = 0
    /\ altHoldThrottleAdjustment = 0
    /\ AltHold = 0
    /\ estimatedVario = 0
    /\ estimatedAltitude = 0
    /\ initialThrottleHold = 0
    /\ isAltHoldChanged = 0
    /\ previousTimeUs = Time0
    /\ vel = 0
    /\ accAlt = 0
    /\ lastBaroAlt = 0
    /\ accZ_old = 0
    /\ flightModeFlags = {}
    /\ rcCommand = [THROTTLE |-> 0, PITCH |-> 0]
    /\ attitude = Level
    /\ calibratingB = 0
    /\ nTicks = 0
    /\ op = [name |-> "init"]

\* the calls of the flight loop that concern the hold; it applies the hold while a
\* hold mode is engaged
HoldCalls(throttles, commands) ==
    \/ \E throttle \in throttles : updateAltHoldState(TRUE, throttle)
    \/ \E throttle \in throttles : updateSonarAltHoldState(TRUE, throttle)
    \/ updateAltHoldState(FALSE, 0)
    \/ updateSonarAltHoldState(FALSE, 0)
    \/ \E in \in ApplyInputs(throttles, commands) :
           /\ flightModeFlags # {}
           /\ applyAltHold(in.throttle, in.cmdThrottle, in.cmdPitch)

\* the hold and its application, over a calibrated barometer
Init == Start(Vehicles)

Next ==
    \/ \E in \in HoldTickInputs : calculateEstimatedAltitude(in)
    \/ HoldCalls(Throttles, ThrottleCommands)

Spec == Init /\ [][Next]_vars

\* the estimator and the controller, under one stick position
InitEst == Start({RotaryFast})

NextEst ==
    \/ \E in \in TickInputs : calculateEstimatedAltitude(in)
    \/ baroSetCalibrationCycles(BaroCalibrationCycles)
    \/ HoldCalls({1100}, ThrottleCommands)

SpecEst == InitEst /\ [][NextEst]_vars

\* the same, with the debug taps live
InitDebug == Start({RotaryFastDebug})

SpecDebug == InitDebug /\ [][NextEst]_vars

\* the rate limit: one reading of barometer and accelerometer, at every time
TimeTickInputs == {TickInput(t, {"BARO", "ACC"}, 1000, 0, Sink, Level) : t \in Times}

NextTime ==
    \/ \E in \in TimeTickInputs : calculateEstimatedAltitude(in)
    \/ HoldCalls({1100}, ThrottleCommands)

SpecTime == InitEst /\ [][NextTime]_vars

\* the ranging blend: readings below, at, inside, at and above the bounds of the band,
\* none (-1 stands for out of range) and zero, over a barometer and without one
SonarAltitudes == {-1, 0, 199, 200, 300, 369, 370}

SonarTickInputs ==
    {TickInput(t, {"BARO", "SONAR"}, 1000, r, NoWindow, Level) :
         t \in {Time25000, Time50000}, r \in SonarAltitudes}
    \cup {TickInput(t, {"SONAR"}, 0, 300, NoWindow, Level) : t \in {Time25000, Time50000}}

NextSonar ==
    \/ \E in \in SonarTickInputs : calculateEstimatedAltitude(in)
    \/ baroSetCalibrationCycles(BaroCalibrationCycles)

SpecSonar == InitEst /\ [][NextSonar]_vars

(***************************************************************************)
(* The controller alone: calculateAltHoldThrottleAdjustment called on a    *)
(* state and with arguments drawn from the corners of their ranges, its    *)
(* result stored as line 299 stores it.                                    *)
(***************************************************************************)
callCalculateAltHoldThrottleAdjustment(vel_tmp, accZ_tmp, accZ_old_) ==
    LET calc == calculateAltHoldThrottleAdjustment(attitude, estimatedAltitude,
                                                   errorVelocityI, vel_tmp, accZ_tmp,
                                                   accZ_old_)
    IN  /\ nTicks < MaxCalls
        /\ nTicks' = nTicks + 1
        /\ altHoldThrottleAdjustment' = calc.result
        /\ errorVelocityI' = calc.errorVelocityI
        /\ op' = [name |-> "calculateAltHoldThrottleAdjustment", vel_tmp |-> vel_tmp,
                  accZ_tmp |-> accZ_tmp, accZ_old |-> accZ_old_, before |-> errorVelocityI,
                  calc |-> calc]
        /\ UNCHANGED <<config, pidProfile, estimatedVario, estimatedAltitude,
                       previousTimeUs, vel, accAlt, lastBaroAlt, accZ_old, attitude,
                       calibratingB>>
        /\ UNCHANGED holdVars

\* decidegrees around the 80 degree limit, and upside down
Angles == {-1800, -800, -799, 0, 799, 800}

\* the default gains, and the largest
CalcPidProfiles == {Gains(50, 120, 45, 1), Gains(255, 255, 255, 255)}

\* targets against an estimate of 400: an altitude error inside the deadband,
\* inside the clamp, and beyond the clamp either way
CalcTargets == {405, 500, 1000, -200}
CalcVelocities == {-8000, 0, 8000}
\* floats: 16 G either way and none
CalcAccelerations == {IntToFloat(-8192), 0, IntToFloat(8192)}

InitCalc ==
    /\ config = RotaryFast
    /\ pidProfile \in CalcPidProfiles
    /\ attitude \in [roll : Angles, pitch : Angles]
    /\ estimatedAltitude = 400
    /\ AltHold \in CalcTargets
    /\ errorVelocityI \in {-ERROR_VELOCITY_I_MAX, 0, ERROR_VELOCITY_I_MAX}
    /\ \/ velocityControl = 0 /\ setVelocity = 0
       \/ velocityControl = 1 /\ setVelocity \in {-400, 400}
    /\ altHoldThrottleAdjustment = 0
    /\ estimatedVario = 0
    /\ initialThrottleHold = 1500
    /\ isAltHoldChanged = 0
    /\ previousTimeUs = Time25000
    /\ vel = 0
    /\ accAlt = IntToFloat(400)
    /\ lastBaroAlt = 400
    /\ accZ_old = 0
    /\ flightModeFlags = {"BARO_MODE"}
    /\ rcCommand = [THROTTLE |-> 1500, PITCH |-> 0]
    /\ calibratingB = 0
    /\ nTicks = 0
    /\ op = [name |-> "init"]

NextCalc ==
    \E vel_tmp \in CalcVelocities, accZ \in CalcAccelerations :
        callCalculateAltHoldThrottleAdjustment(vel_tmp, accZ, accZ)

SpecCalc == InitCalc /\ [][NextCalc]_vars


(***************************************************************************)
(* Properties.                                                             *)
(***************************************************************************)
\* everything the program holds; nTicks and op are the model's bookkeeping
programVars == <<config, pidProfile, setVelocity, velocityControl, errorVelocityI,
                 altHoldThrottleAdjustment, AltHold, estimatedVario, estimatedAltitude,
                 initialThrottleHold, isAltHoldChanged, previousTimeUs, vel, accAlt,
                 lastBaroAlt, accZ_old, flightModeFlags, rcCommand, attitude,
                 calibratingB>>

\* programVars without flightModeFlags
programVarsButFlags == <<config, pidProfile, setVelocity, velocityControl, errorVelocityI,
                         altHoldThrottleAdjustment, AltHold, estimatedVario,
                         estimatedAltitude, initialThrottleHold, isAltHoldChanged,
                         previousTimeUs, vel, accAlt, lastBaroAlt, accZ_old, rcCommand,
                         attitude, calibratingB>>

\* the two hold instances: the function that updates each and the flag it owns
HoldInstances ==
    {[fn |-> "updateAltHoldState", mode |-> "BARO_MODE"],
     [fn |-> "updateSonarAltHoldState", mode |-> "SONAR_MODE"]}

\* (cur - prev) mod 2^32 >= BARO_UPDATE_FREQUENCY_40HZ, from the values of the two
\* timestamps: the timer has wrapped when it reads less than prev, and then 2^32 is
\* added to its reading before prev is subtracted
QuantumElapsed(prev, cur) ==
    LET wrapped == cur.hi < prev.hi \/ (cur.hi = prev.hi /\ cur.lo < prev.lo)
        dh == cur.hi + (IF wrapped THEN U16 ELSE 0) - prev.hi
        dl == cur.lo - prev.lo
    IN  \/ dh >= 2
        \/ dh = 1 /\ U16 + dl >= BARO_UPDATE_FREQUENCY_40HZ
        \/ dh = 0 /\ dl >= BARO_UPDATE_FREQUENCY_40HZ

\* C1: a call of calculateEstimatedAltitude is accepted iff the unsigned 32-bit
\* difference between its time and the stored timestamp is at least 25000 us, also
\* across a wrap of the timer; a call that is not accepted changes nothing: the
\* estimates, the adjustment, the integral, the filter accumulators and the stored
\* timestamp keep their values.
C1_RateLimit ==
    [][op'.name = "calculateEstimatedAltitude" =>
          /\ op'.accepted <=> QuantumElapsed(previousTimeUs, op'.time)
          /\ op'.accepted => previousTimeUs' = op'.time
          /\ ~QuantumElapsed(previousTimeUs, op'.time) => UNCHANGED programVars]_vars

\* a call 20000 us after the stored timestamp, with the timer wrapped in between, has
\* been turned down, after a tick that had produced an estimate
C1_Witness ==
    /\ op.name = "calculateEstimatedAltitude"
    /\ ~op.accepted
    /\ op.time = Time0
    /\ previousTimeUs = TimeBeforeWrap
    /\ estimatedAltitude # 0

\* C2: in every reachable state the velocity integral lies within
\* [-(8192*200), +(8192*200)].
C2_IntegralClamped ==
    /\ errorVelocityI >= -ERROR_VELOCITY_I_MAX
    /\ errorVelocityI <= ERROR_VELOCITY_I_MAX

\* a tick has driven the integral into its lower limit
C2_Witness ==
    /\ op.name = "calculateEstimatedAltitude"
    /\ op.accepted
    /\ ~op.exits
    /\ errorVelocityI = -ERROR_VELOCITY_I_MAX

\* C3: whatever its inputs, the P stage of calculateAltHoldThrottleAdjustment is
\* within +/-300, the I contribution within +/-200, the D stage within +/-150, and
\* the value returned and stored in altHoldThrottleAdjustment within +/-650.
C3_AdjustmentBounded ==
    op.name = "calculateAltHoldThrottleAdjustment" =>
        /\ ABS(op.calc.p) <= 300
        /\ ABS(op.calc.i) <= 200
        /\ ABS(op.calc.d) <= 150
        /\ altHoldThrottleAdjustment = op.calc.result
        /\ ABS(altHoldThrottleAdjustment) <= 300 + 200 + 150

\* all three stages at their limits, adding up
C3_Witness ==
    /\ op.name = "calculateAltHoldThrottleAdjustment"
    /\ op.calc.p = 300
    /\ op.calc.i = 200
    /\ op.calc.d = -150
    /\ altHoldThrottleAdjustment = 650

\* C4: isThrustFacingDownwards is true iff both roll and pitch are strictly between
\* -800 and 800 decidegrees; it is false at exactly 800 and beyond, of either sign.
C4_ThrustFacingDownwards ==
    op.name = "calculateAltHoldThrottleAdjustment" =>
        (op.calc.thrust <=> /\ -800 < attitude.roll /\ attitude.roll < 800
                            /\ -800 < attitude.pitch /\ attitude.pitch < 800)

\* the function has answered false with the pitch at the limit and the roll below it
C4_Witness ==
    /\ op.name = "calculateAltHoldThrottleAdjustment"
    /\ attitude.roll = 799
    /\ attitude.pitch = -800
    /\ ~op.calc.thrust

\* C5: whenever roll or pitch is at 800 decidegrees or beyond, of either sign,
\* calculateAltHoldThrottleAdjustment returns 0, whatever the target, the velocity,
\* the accelerations, the gains and the integral.
C5_NoAdjustmentWhenTilted ==
    (/\ op.name = "calculateAltHoldThrottleAdjustment"
     /\ (ABS(attitude.roll) >= 800 \/ ABS(attitude.pitch) >= 800))
        => op.calc.result = 0 /\ altHoldThrottleAdjustment = 0

\* tilted to the limit, with the largest gains, a saturated integral and inputs that
\* would drive every stage to its limit
C5_Witness ==
    /\ op.name = "calculateAltHoldThrottleAdjustment"
    /\ attitude.roll = 800
    /\ attitude.pitch = 0
    /\ pidProfile = Gains(255, 255, 255, 255)
    /\ op.before = ERROR_VELOCITY_I_MAX
    /\ op.vel_tmp = -8000
    /\ op.accZ_tmp = IntToFloat(-8192)
    /\ altHoldThrottleAdjustment = 0

\* C6: for each hold instance, a call with the request active runs the engage action
\* (AltHold := estimate, initialThrottleHold := throttle input, errorVelocityI := 0,
\* altHoldThrottleAdjustment := 0) on the call that sets the mode flag, and a call
\* that finds the flag set changes nothing.
C6_EngageOnce ==
    [][\A f \in HoldInstances :
          (op'.name = f.fn /\ op'.active) =>
              IF f.mode \notin flightModeFlags
              THEN /\ flightModeFlags' = flightModeFlags \cup {f.mode}
                   /\ AltHold' = estimatedAltitude
                   /\ initialThrottleHold' = op'.throttle
                   /\ errorVelocityI' = 0
                   /\ altHoldThrottleAdjustment' = 0
              ELSE UNCHANGED programVars]_vars

\* a call has found the ranging hold engaged, with the estimate and the throttle input
\* no longer what was latched, and a controller that has run since
C6_Witness ==
    /\ op.name = "updateSonarAltHoldState"
    /\ op.active
    /\ op.engaged
    /\ AltHold # estimatedAltitude
    /\ initialThrottleHold # op.throttle
    /\ altHoldThrottleAdjustment # 0

\* C7: a call with the request inactive that finds the mode flag set clears that flag
\* and nothing else: AltHold, initialThrottleHold, errorVelocityI,
\* altHoldThrottleAdjustment, setVelocity, velocityControl, the estimate and the other
\* instance's flag keep their values.
C7_DisengageClearsFlagOnly ==
    [][\A f \in HoldInstances :
          (op'.name = f.fn /\ ~op'.active /\ f.mode \in flightModeFlags) =>
              /\ flightModeFlags' = flightModeFlags \ {f.mode}
              /\ UNCHANGED programVarsButFlags]_vars

\* the barometer hold has been disengaged with the ranging hold engaged, in velocity
\* control, with an integral and an adjustment to keep
C7_Witness ==
    /\ op.name = "updateAltHoldState"
    /\ ~op.active
    /\ op.engaged
    /\ flightModeFlags = {"SONAR_MODE"}
    /\ velocityControl = 1
    /\ errorVelocityI # 0
    /\ altHoldThrottleAdjustment # 0

\* C8: engaging a disengaged hold and disengaging it in the next call, with no tick
\* and no applyAltHold in between, leaves errorVelocityI = 0 and
\* altHoldThrottleAdjustment = 0, the mode flag clear and the command channels as they
\* were: the engaging call zeroes the two and leaves the commands alone, and so does
\* the disengaging call that follows it.
C8_EngageDisengageRoundTrip ==
    [][\A f \in HoldInstances :
          /\ (op'.name = f.fn /\ op'.active /\ f.mode \notin flightModeFlags) =>
                 /\ errorVelocityI' = 0
                 /\ altHoldThrottleAdjustment' = 0
                 /\ rcCommand' = rcCommand
          /\ (/\ op.name = f.fn /\ op.active /\ ~op.engaged
              /\ op'.name = f.fn /\ ~op'.active) =>
                 /\ errorVelocityI' = 0
                 /\ altHoldThrottleAdjustment' = 0
                 /\ f.mode \notin flightModeFlags'
                 /\ rcCommand' = rcCommand]_vars

\* the barometer hold has been engaged and disengaged in two successive calls, after
\* an estimate had been produced and a throttle command written
C8_Witness ==
    /\ op.name = "updateAltHoldState"
    /\ ~op.active
    /\ op.justEngaged
    /\ "BARO_MODE" \notin flightModeFlags
    /\ estimatedAltitude # 0
    /\ rcCommand.THROTTLE # 0
    /\ errorVelocityI = 0
    /\ altHoldThrottleAdjustment = 0

\* C9, as claimed: after every applyAltHold call the channel it writes is within the
\* valid range: the throttle command within [PWM_RANGE_MIN, PWM_RANGE_MAX] on a rotary
\* wing, in fast and in slow mode, the pitch command within [-500, 500] on a fixed
\* wing.
C9_AlwaysClamped ==
    op.name = "applyAltHold" =>
        IF config.FIXED_WING
        THEN rcCommand.PITCH >= -500 /\ rcCommand.PITCH <= 500
        ELSE rcCommand.THROTTLE >= PWM_RANGE_MIN /\ rcCommand.THROTTLE <= PWM_RANGE_MAX

\* C9, amended: after an applyAltHold call on a rotary wing the throttle command is
\* within [PWM_RANGE_MIN, PWM_RANGE_MAX] in slow mode, and in fast mode while the stick
\* is within the deadband of the engage-time position; in fast mode while the stick is
\* beyond the deadband the throttle command is the prior command moved by the deadband
\* towards the engage-time position, and on a fixed wing the pitch command is the prior
\* command plus or minus the adjustment, neither of them clamped.
C9_ClampedWhereHeld ==
    op.name = "applyAltHold" =>
        LET deadband == config.alt_hold_deadband
            beyond == \/ op.throttle - initialThrottleHold > deadband
                      \/ initialThrottleHold - op.throttle > deadband
        IN  IF config.FIXED_WING
            THEN rcCommand.PITCH = op.cmdPitch +
                     (IF config.fixedwing_althold_reversed
                      THEN -altHoldThrottleAdjustment ELSE altHoldThrottleAdjustment)
            ELSE IF config.alt_hold_fast_change /\ beyond
            THEN rcCommand.THROTTLE = IF op.throttle > initialThrottleHold
                                      THEN op.cmdThrottle - deadband
                                      ELSE op.cmdThrottle + deadband
            ELSE /\ rcCommand.THROTTLE >= PWM_RANGE_MIN
                 /\ rcCommand.THROTTLE <= PWM_RANGE_MAX

\* the hold has been applied with engage-time throttle + adjustment below the range,
\* and the command is at the bottom of the range
C9_Witness ==
    /\ op.name = "applyAltHold"
    /\ ~config.FIXED_WING
    /\ op.throttle = initialThrottleHold
    /\ initialThrottleHold + altHoldThrottleAdjustment < PWM_RANGE_MIN
    /\ rcCommand.THROTTLE = PWM_RANGE_MIN

\* C10, as claimed: an accepted tick that finds the barometer present and not yet
\* calibrated runs one calibration cycle and leaves estimatedAltitude, estimatedVario
\* and altHoldThrottleAdjustment as they were, whatever the other sensors read.
C10_NoEstimateWhileCalibrating ==
    [][(/\ op'.name = "calculateEstimatedAltitude"
        /\ op'.accepted
        /\ "BARO" \in op'.in.sensors
        /\ calibratingB # 0) =>
           /\ calibratingB' = calibratingB - 1
           /\ UNCHANGED <<estimatedAltitude, estimatedVario,
                          altHoldThrottleAdjustment>>]_vars

\* C10, amended: an accepted tick that finds the barometer present and not yet
\* calibrated runs one calibration cycle and zeroes the velocity and altitude
\* accumulators before the ranging and accelerometer blocks, which still run: a present
\* accelerometer integrates its window from the zeroed accumulators and sets
\* estimatedAltitude from the altitude accumulator, otherwise a ranging reading in its
\* band sets estimatedAltitude to its blend with a barometric altitude of 0, and
\* otherwise estimatedAltitude is unchanged.  If the calibration is still incomplete
\* after the cycle, the tick ends before the velocity stage: estimatedVario,
\* altHoldThrottleAdjustment, the integral, the last barometric altitude and the last
\* acceleration are unchanged.
C10_CalibratingTick ==
    [][(/\ op'.name = "calculateEstimatedAltitude"
        /\ op'.accepted
        /\ "BARO" \in op'.in.sensors
        /\ calibratingB # 0) =>
           LET in == op'.in
               acc == "ACC" \in in.sensors
               ranged == "SONAR" \in in.sensors /\ sonarInRange(in.sonarAlt)
               vel_acc == velAcc(meanAccZ(in.accSum, in.accSumCount), in.accTimeSum)
               alt == complementaryFilter(
                          integrateAccAlt(0, 0, vel_acc, in.accTimeSum), 0,
                          config.baro_cf_alt)
           IN  /\ calibratingB' = calibratingB - 1
               /\ accAlt' = IF acc THEN alt ELSE 0
               /\ estimatedAltitude' = IF acc THEN FloatToInt(alt)
                                       ELSE IF ranged THEN sonarBlend(in.sonarAlt, 0)
                                       ELSE estimatedAltitude
               /\ calibratingB' # 0 =>
                      /\ vel' = IF acc THEN vel_acc ELSE 0
                      /\ UNCHANGED <<estimatedVario, altHoldThrottleAdjustment,
                                     errorVelocityI, lastBaroAlt, accZ_old>>]_vars

\* a tick of a calibration that goes on has overwritten the estimate with the ranging
\* reading's blend and kept the vario of the tick before
C10_Witness ==
    /\ op.name = "calculateEstimatedAltitude"
    /\ op.accepted
    /\ op.calibrating
    /\ calibratingB # 0
    /\ "SONAR" \in op.in.sensors
    /\ "ACC" \notin op.in.sensors
    /\ estimatedAltitude = sonarBlend(op.in.sonarAlt, 0)
    /\ estimatedVario # 0

\* C11: no accepted tick executes a division with a divisor of zero: not by the
\* accelerometer sample count, the debug taps included, and not by the width of the
\* ranging band.
C11_NoZeroDivisor ==
    (op.name = "calculateEstimatedAltitude" /\ op.accepted) => op.zeroDivisors = {}

\* C12: right after a call that engages a hold, whatever an earlier engagement left
\* behind, errorVelocityI = 0, altHoldThrottleAdjustment = 0, velocity control is
\* inactive and the 'changed' flag is clear.
C12_EngageResetsController ==
    (/\ op.name \in {"updateAltHoldState", "updateSonarAltHoldState"}
     /\ op.active
     /\ ~op.engaged) =>
        /\ errorVelocityI = 0
        /\ altHoldThrottleAdjustment = 0
        /\ velocityControl = 0
        /\ isAltHoldChanged = 0

\* C13: rotary wing, fast mode.  A call of applyAltHold with the stick beyond the
\* deadband leaves errorVelocityI = 0, the throttle command biased by the deadband
\* (minus when the stick is above the engage-time position, plus otherwise) and AltHold
\* unchanged.  A call with the stick within the deadband sets the throttle command to
\* clamp(initialThrottleHold + altHoldThrottleAdjustment); it re-latches AltHold to the
\* estimate when the stick has been beyond the deadband since the last call within it
\* (the call before was one beyond it, in particular), and leaves AltHold unchanged
\* otherwise (the call before was one within it, in particular).
C13_FastMode ==
    [][(/\ op'.name = "applyAltHold"
        /\ ~config.FIXED_WING
        /\ config.alt_hold_fast_change) =>
           LET deadband == config.alt_hold_deadband
               Beyond(stick) == \/ stick - initialThrottleHold > deadband
                                \/ initialThrottleHold - stick > deadband
               sum == initialThrottleHold + altHoldThrottleAdjustment
               lastCallBeyond == op.name = "applyAltHold" /\ Beyond(op.throttle)
               lastCallWithin == op.name = "applyAltHold" /\ ~Beyond(op.throttle)
           IN  IF Beyond(op'.throttle)
               THEN /\ errorVelocityI' = 0
                    /\ rcCommand'.THROTTLE = IF op'.throttle > initialThrottleHold
                                             THEN op'.cmdThrottle - deadband
                                             ELSE op'.cmdThrottle + deadband
                    /\ AltHold' = AltHold
                    /\ isAltHoldChanged' = 1
               ELSE /\ rcCommand'.THROTTLE = IF sum < PWM_RANGE_MIN THEN PWM_RANGE_MIN
                                             ELSE IF sum > PWM_RANGE_MAX THEN PWM_RANGE_MAX
                                             ELSE sum
                    /\ AltHold' = IF isAltHoldChanged # 0 THEN estimatedAltitude
                                  ELSE AltHold
                    /\ isAltHoldChanged' = 0
                    /\ lastCallBeyond => AltHold' = estimatedAltitude
                    /\ lastCallWithin => AltHold' = AltHold]_vars

\* in fast mode the stick has come back within the deadband and the call has moved the
\* target to the estimate
C13_Witness ==
    /\ op.name = "applyAltHold"
    /\ ~config.FIXED_WING
    /\ config.alt_hold_fast_change
    /\ op.throttle = initialThrottleHold
    /\ op.relatched
    /\ AltHold = estimatedAltitude
    /\ isAltHoldChanged = 0
    /\ errorVelocityI = 0

\* C14: rotary wing, slow mode.  After a call of applyAltHold velocity control is
\* active, with setVelocity = (rcData[THROTTLE] - initialThrottleHold) / 2, exactly
\* when the stick was beyond the deadband at that call; a call with the stick within
\* the deadband re-latches AltHold to the estimate and leaves velocity control when the
\* stick has been beyond the deadband since the last call within it, and changes
\* neither otherwise; no call changes errorVelocityI, and every call sets the throttle
\* command to clamp(initialThrottleHold + altHoldThrottleAdjustment).
C14_SlowMode ==
    [][(/\ op'.name = "applyAltHold"
        /\ ~config.FIXED_WING
        /\ ~config.alt_hold_fast_change) =>
           LET deadband == config.alt_hold_deadband
               deviation == op'.throttle - initialThrottleHold
               beyond == deviation > deadband \/ -deviation > deadband
               half == IF deviation >= 0 THEN deviation \div 2 ELSE -((-deviation) \div 2)
               sum == initialThrottleHold + altHoldThrottleAdjustment
           IN  /\ velocityControl' = 1 <=> beyond
               /\ velocityControl' \in {0, 1}
               /\ beyond => setVelocity' = half /\ AltHold' = AltHold
               /\ ~beyond =>
                      /\ setVelocity' = setVelocity
                      /\ AltHold' = IF isAltHoldChanged # 0 THEN estimatedAltitude
                                    ELSE AltHold
                      /\ velocityControl = 1 => AltHold' = estimatedAltitude
               /\ isAltHoldChanged' = IF beyond THEN 1 ELSE 0
               /\ errorVelocityI' = errorVelocityI
               /\ rcCommand'.THROTTLE = IF sum < PWM_RANGE_MIN THEN PWM_RANGE_MIN
                                        ELSE IF sum > PWM_RANGE_MAX THEN PWM_RANGE_MAX
                                        ELSE sum]_vars

\* in slow mode the stick has come back within the deadband: the call has moved the
\* target to the estimate and left velocity control, with the integral as the
\* controller left it
C14_Witness ==
    /\ op.name = "applyAltHold"
    /\ ~config.FIXED_WING
    /\ ~config.alt_hold_fast_change
    /\ op.throttle = initialThrottleHold
    /\ op.relatched
    /\ AltHold = estimatedAltitude
    /\ velocityControl = 0
    /\ setVelocity # 0
    /\ errorVelocityI # 0

\* C15: with thrust facing downwards and velocity control inactive, the target velocity
\* of the inner loop is clamp(P_alt * deadband(clamp(AltHold - estimatedAltitude, -500,
\* 500), 10) / 128, -300, 300), the division truncating (a target of 1000 against an
\* estimate of 400 gives an error of 500, then 490); with velocity control active it
\* is setVelocity.
C15_TargetVelocity ==
    (op.name = "calculateAltHoldThrottleAdjustment" /\ op.calc.thrust) =>
        LET diff == AltHold - estimatedAltitude
            clamped == IF diff < -500 THEN -500 ELSE IF diff > 500 THEN 500 ELSE diff
            error == IF clamped > 10 THEN clamped - 10
                     ELSE IF clamped < -10 THEN clamped + 10
                     ELSE 0
            product == pidProfile.P8ALT * error
            quotient == IF product >= 0 THEN product \div 128 ELSE -((-product) \div 128)
            target == IF quotient < -300 THEN -300
                      ELSE IF quotient > 300 THEN 300
                      ELSE quotient
        IN  /\ velocityControl = 0 => op.calc.setVel = target
            /\ velocityControl # 0 => op.calc.setVel = setVelocity
            /\ (velocityControl = 0 /\ AltHold = 1000 /\ estimatedAltitude = 400
                    /\ pidProfile.P8ALT = 50) => op.calc.setVel = 191
            /\ (velocityControl = 0 /\ AltHold = -200 /\ estimatedAltitude = 400
                    /\ pidProfile.P8ALT = 50) => op.calc.setVel = -191

\* the scenario of the target at 1000 against an estimate of 400, with the default gain
C15_Witness ==
    /\ op.name = "calculateAltHoldThrottleAdjustment"
    /\ op.calc.thrust
    /\ velocityControl = 0
    /\ AltHold = 1000
    /\ estimatedAltitude = 400
    /\ pidProfile.P8ALT = 50
    /\ op.calc.setVel = 191

\* C16: on an accepted tick with the ranging sensor present and no accelerometer, a
\* ranging altitude that is positive and within [sonarCfAltCm, sonarMaxAltWithTiltCm]
\* makes the estimate ranging * t + baro * (1 - t), t = (max - ranging) / (max - lower),
\* converted to an integer: the ranging altitude alone at the lower bound, the
\* barometric altitude alone at the upper bound; any other reading leaves the
\* barometric estimate of the tick, or the estimate as it was without one.  baro is 0
\* without a calibrated barometer.
C16_RangingBlend ==
    [][(/\ op'.name = "calculateEstimatedAltitude"
        /\ op'.accepted
        /\ "SONAR" \in op'.in.sensors
        /\ "ACC" \notin op'.in.sensors) =>
           LET in == op'.in
               ranging == in.sonarAlt
               calibrated == "BARO" \in in.sensors /\ calibratingB = 0
               baro == IF calibrated THEN in.baroAlt ELSE 0
               lower == sonarCfAltCm
               max == sonarMaxAltWithTiltCm
               inBand == ranging > 0 /\ ranging >= lower /\ ranging <= max
               \* (ranging * t + baro * (1 - t)) * (max - lower)
               scaled == ranging * (max - ranging) + baro * (ranging - lower)
               est == estimatedAltitude'
           IN  IF inBand
               THEN /\ IF scaled >= 0
                       THEN /\ est * (max - lower) <= scaled
                            /\ scaled < (est + 1) * (max - lower)
                       ELSE /\ est * (max - lower) >= scaled
                            /\ scaled > (est - 1) * (max - lower)
                    /\ ranging = lower => est = ranging
                    /\ ranging = max => est = baro
               ELSE est = IF calibrated THEN in.baroAlt ELSE estimatedAltitude]_vars

\* a reading at the lower bound of the band has become the estimate, over a barometer
\* that reads otherwise
C16_Witness ==
    /\ op.name = "calculateEstimatedAltitude"
    /\ op.accepted
    /\ ~op.calibrating
    /\ op.in.sensors = {"BARO", "SONAR"}
    /\ op.in.sonarAlt = sonarCfAltCm
    /\ op.in.baroAlt # sonarCfAltCm
    /\ estimatedAltitude = sonarCfAltCm

\* programVars without rcCommand
programVarsButCommands == <<config, pidProfile, setVelocity, velocityControl,
                            errorVelocityI, altHoldThrottleAdjustment, AltHold,
                            estimatedVario, estimatedAltitude, initialThrottleHold,
                            isAltHoldChanged, previousTimeUs, vel, accAlt, lastBaroAlt,
                            accZ_old, flightModeFlags, attitude, calibratingB>>

\* C17: applyAltHold on a fixed wing adds altHoldThrottleAdjustment to the pitch
\* command, negated when fixedwing_althold_reversed is set, and changes nothing else:
\* AltHold, errorVelocityI, setVelocity, velocityControl, the 'changed' flag and the
\* throttle command stay as they were.
C17_FixedWingPath ==
    [][(op'.name = "applyAltHold" /\ config.FIXED_WING) =>
           /\ rcCommand'.PITCH = IF config.fixedwing_althold_reversed
                                 THEN op'.cmdPitch - altHoldThrottleAdjustment
                                 ELSE op'.cmdPitch + altHoldThrottleAdjustment
           /\ rcCommand'.THROTTLE = op'.cmdThrottle
           /\ UNCHANGED programVarsButCommands]_vars

\* a reversed fixed wing has had a nonzero adjustment taken off its pitch command
C17_Witness ==
    /\ op.name = "applyAltHold"
    /\ config.FIXED_WING
    /\ config.fixedwing_althold_reversed
    /\ altHoldThrottleAdjustment # 0
    /\ rcCommand.PITCH = op.cmdPitch - altHoldThrottleAdjustment
    /\ rcCommand.THROTTLE = op.cmdThrottle

\* C18, as claimed: an accepted tick with no barometer, no ranging sensor and no
\* accelerometer present leaves estimatedAltitude, the velocity accumulator and
\* estimatedVario as they were.
C18_NoSensorsNoChange ==
    [][(/\ op'.name = "calculateEstimatedAltitude"
        /\ op'.accepted
        /\ op'.in.sensors = {}) =>
           UNCHANGED <<estimatedAltitude, vel, estimatedVario>>]_vars

\* C18, amended: an accepted tick with no barometer, no ranging sensor and no
\* accelerometer present leaves estimatedAltitude and the altitude accumulator as they
\* were; the velocity accumulator is multiplied by baro_cf_vel (the complementary
\* filter against a barometric velocity of 0), and estimatedVario becomes that velocity,
\* rounded, with a deadband of 5.  A velocity accumulator of 0 stays 0.
C18_NoSensorsVelocityDecays ==
    [][(/\ op'.name = "calculateEstimatedAltitude"
        /\ op'.accepted
        /\ op'.in.sensors = {}) =>
           LET scaled == vel * config.baro_cf_vel
               decayed == IF scaled >= 0 THEN scaled \div CfDen ELSE -((-scaled) \div CfDen)
               \* decayed / FS to the nearest integer, ties to even
               whole == decayed \div FS
               rest == decayed - whole * FS
               rounded == IF 2 * rest < FS THEN whole
                          ELSE IF 2 * rest > FS THEN whole + 1
                          ELSE IF whole % 2 = 0 THEN whole ELSE whole + 1
           IN  /\ estimatedAltitude' = estimatedAltitude
               /\ accAlt' = accAlt
               /\ vel' = decayed
               /\ estimatedVario' = IF rounded > 5 THEN rounded - 5
                                    ELSE IF rounded < -5 THEN rounded + 5
                                    ELSE 0
               /\ vel = 0 => vel' = 0 /\ estimatedVario' = 0]_vars

\* a tick without sensors has kept the estimate and let the velocity decay, after a
\* tick that had left both nonzero
C18_Witness ==
    /\ op.name = "calculateEstimatedAltitude"
    /\ op.accepted
    /\ op.in.sensors = {}
    /\ estimatedAltitude # 0
    /\ vel # 0
    /\ estimatedVario # 0

\* C19: AltHold changes only in a call that engages the barometer hold, in a call that
\* engages the ranging hold, or in a rotary-wing applyAltHold call with the stick within
\* the deadband after it has been beyond it, and each of them sets it to the estimate
\* of that moment.  Estimator ticks, disengaging calls, repeated engaged calls and the
\* fixed-wing path leave it alone; engaging one hold moves the target also when the
\* other hold is engaged.
C19_TargetWrites ==
    [][/\ AltHold' # AltHold =>
              /\ AltHold' = estimatedAltitude
              /\ \/ \E f \in HoldInstances :
                        /\ op'.name = f.fn
                        /\ op'.active
                        /\ f.mode \notin flightModeFlags
                        /\ f.mode \in flightModeFlags'
                 \/ /\ op'.name = "applyAltHold"
                    /\ ~config.FIXED_WING
                    /\ isAltHoldChanged # 0
                    /\ op'.throttle - initialThrottleHold <= config.alt_hold_deadband
                    /\ initialThrottleHold - op'.throttle <= config.alt_hold_deadband
       /\ \A f \in HoldInstances :
              (op'.name = f.fn /\ op'.active /\ f.mode \notin flightModeFlags) =>
                  AltHold' = estimatedAltitude
       /\ (\/ op'.name = "calculateEstimatedAltitude"
           \/ op'.name = "applyAltHold" /\ config.FIXED_WING) => AltHold' = AltHold]_vars

\* engaging the ranging hold has moved the target of the barometer hold, engaged before
C19_Witness ==
    /\ op.name = "updateSonarAltHoldState"
    /\ op.active
    /\ ~op.engaged
    /\ op.relatched
    /\ flightModeFlags = {"BARO_MODE", "SONAR_MODE"}
    /\ AltHold = estimatedAltitude

=============================================================================
